---------------------------- MODULE Spec2Model ----------------------------
(***************************************************************************)
(* SurgiLog: the App component (draft record, record store, persistence   *)
(* to localStorage) and the two capture widgets that feed it.              *)
(*                                                                         *)
(* React state is modelled as the component's state variables; every       *)
(* event handler, promise continuation, timer callback and effect flush    *)
(* is one atomic action (JavaScript runs each to completion, and every     *)
(* state update of the handlers that read state after an await is a        *)
(* functional update on the latest state).                                 *)
(*                                                                         *)
(* A render is taken to complete before the next event is handled, so a    *)
(* handler's closure sees the current state.                               *)
(*                                                                         *)
(* Several specifications explore the same actions:                        *)
(*   Spec       the record store and its persistence (start-up, commit,    *)
(*              remove, reload), the draft fed by name edits and audio     *)
(*   SpecDraft  the draft builder with every edit, both merges and both    *)
(*              failure paths, handlers called directly                    *)
(*   SpecUI     the capture widgets in front of the two handlers, with     *)
(*              the clock running                                          *)
(*   SpecCommit the commit of a draft filled by the inputs and by both     *)
(*              extractions, and the reset, with the clock running;        *)
(*              SpecCommitLive adds that a due timer callback runs         *)
(*   SpecExport the record store and its CSV export                        *)
(***************************************************************************)
EXTENDS Integers, Sequences, FiniteSets, TLC

VARIABLES
    phase,          \* "boot" | "loading" | "ready" | "crashed": where start-up stands
    slot,           \* localStorage['surgilog_db']
    pendingLoad,    \* value handed to setSavedRecords by the load effect, not yet rendered
    now,            \* the clock read by new Date() and Date.now() (days)
    currentRecord,  \* useState currentRecord (the draft)
    imageBase64,    \* useState imageBase64
    savedRecords,   \* useState savedRecords (the store)
    loading,        \* useState loading {image, audio}
    error,          \* useState error
    isSuccess,      \* useState isSuccess
    timers,         \* pending setTimeout callbacks of handleSaveRecord
    imageCalls,     \* outstanding extractPatientDataFromImage calls
    audioCalls,     \* outstanding processInterventionAudio calls
    imageReads,     \* FileReader reads pending in ImageUpload.handleFile
    isRecording,    \* AudioRecorder useState isRecording
    audioReads,     \* FileReader reads pending in mediaRecorder.onstop
    nextId,         \* how many ids uuidv4 has handed out, plus one
    tally,          \* history: records loaded at start-up, commits, removals since
    last            \* history: the operation that produced this state

vars ==
    << phase, slot, pendingLoad, now, currentRecord, imageBase64, savedRecords,
       loading, error, isSuccess, timers, imageCalls, audioCalls, imageReads,
       isRecording, audioReads, nextId, tally, last >>

-----------------------------------------------------------------------------
(* Bounds of the exploration *)

\* ids uuidv4 hands out (commits over all runs of the page)
MaxIds == 3

\* outstanding extraction calls per channel when the handlers are called directly
MaxCalls == 1

\* pending file reads plus outstanding calls per channel behind the widgets
MaxPending == 2

\* days the clock runs
MaxNow == 2

\* ids uuidv4 hands out while every field of the draft is filled
MaxRichIds == 1
MaxButtonIds == 2

-----------------------------------------------------------------------------
(* JavaScript values *)

\* a property that is absent (undefined) on a string-valued field
Undefined == "undefined"

\* null in a string-or-null state cell
Null == "null"

\* JavaScript truthiness of an optional string: undefined and "" are falsy
Truthy(s) == s # Undefined /\ s # ""

\* a || b on optional strings
OrElse(a, b) == IF Truthy(a) THEN a ELSE b

\* An optional object is <<>> (undefined) or <<obj>>
None == << >>

Some(v) == << v >>

\* new Date().toISOString().split('T')[0]
DateOf(n) == << "2024-05-01", "2024-05-02", "2024-05-03", "2024-05-04" >>[n]

Today == DateOf(now)

\* enum BodyRegion
BodyRegion == { "Hombro", "Rodilla", "Codo", "Muneca", "Pie/Tobillo", "Cadera", "Otro" }

Flags == { "isArthroscopic", "isLCA", "isKneeRelated" }

\* the messages of setError
ImageError ==
    "No se pudieron extraer los datos de la imagen. Por favor intente nuevamente o ingrese los datos manualmente."

AudioError ==
    "Error al procesar el audio. Por favor intente hablar mas claro o verifique su conexion."

SaveError ==
    "Faltan datos obligatorios (Nombre del Paciente o Intervencion)."

\* useState initial value of currentRecord, and the draft handleNewPatient sets
FreshDraft(date) ==
    [ patientName       |-> Undefined,
      clinicalHistoryId |-> Undefined,
      phoneNumber       |-> Undefined,
      date              |-> date,
      intervention      |-> None ]

-----------------------------------------------------------------------------
(* Inputs *)

\* what the user types into the name field / what the image adapter reads
Names == { "", "Ana Gomez" }

HcIds == { "", "123" }

Phones == { "", "555-0101 / 555-0102" }

\* the date input: cleared, or a picked day
PickedDates == { "", "2024-04-30" }

Descriptions == { "Meniscectomy", "He said \"ok\"" }

IvA ==
    [ description    |-> "Meniscectomy",
      region         |-> "Rodilla",
      isArthroscopic |-> TRUE,
      isLCA          |-> FALSE,
      isKneeRelated  |-> TRUE ]

IvB ==
    [ description    |-> "He said \"ok\"",
      region         |-> "Hombro",
      isArthroscopic |-> FALSE,
      isLCA          |-> TRUE,
      isKneeRelated  |-> FALSE ]

\* results of processInterventionAudio
AudioPayloads == { IvA, IvB }

\* results of extractPatientDataFromImage
ImagePayloads ==
    { [ patientName |-> "", clinicalHistoryId |-> "", date |-> "", phoneNumber |-> "" ],
      [ patientName |-> "Ana Gomez", clinicalHistoryId |-> "123",
        date |-> "2024-04-30", phoneNumber |-> "555-0101 / 555-0102" ],
      [ patientName |-> "Ana Gomez", clinicalHistoryId |-> "",
        date |-> "2024-04-30", phoneNumber |-> "" ],
      [ patientName |-> "", clinicalHistoryId |-> "123",
        date |-> "", phoneNumber |-> "555-0101 / 555-0102" ] }

NoPayload ==
    [ patientName |-> "", clinicalHistoryId |-> "", date |-> "", phoneNumber |-> "" ]

-----------------------------------------------------------------------------
(* JSON.stringify / JSON.parse of the store *)

\* JSON.stringify of a SurgicalIntervention: its members in insertion order
EncodeIntervention(iv) ==
    << << "description", iv.description >>,
       << "region", iv.region >>,
       << "isArthroscopic", iv.isArthroscopic >>,
       << "isLCA", iv.isLCA >>,
       << "isKneeRelated", iv.isKneeRelated >> >>

\* (mutant) a serializer that drops every falsy member, the empty string included
EncodeRecordDroppingEmpty(r) ==
    << << "id", r.id >> >>
    \o (IF ~ Truthy(r.patientName) THEN << >> ELSE << << "patientName", r.patientName >> >>)
    \o (IF ~ Truthy(r.clinicalHistoryId) THEN << >>
        ELSE << << "clinicalHistoryId", r.clinicalHistoryId >> >>)
    \o (IF ~ Truthy(r.phoneNumber) THEN << >> ELSE << << "phoneNumber", r.phoneNumber >> >>)
    \o (IF ~ Truthy(r.date) THEN << >> ELSE << << "date", r.date >> >>)
    \o (IF r.intervention = None THEN << >>
        ELSE << << "intervention", EncodeIntervention(r.intervention[1]) >> >>)
    \o << << "createdAt", r.createdAt >> >>

\* JSON.stringify of one record: members in insertion order, undefined ones dropped
EncodeRecord(r) ==
    << << "id", r.id >> >>
    \o (IF r.patientName = Undefined THEN << >> ELSE << << "patientName", r.patientName >> >>)
    \o (IF r.clinicalHistoryId = Undefined THEN << >>
        ELSE << << "clinicalHistoryId", r.clinicalHistoryId >> >>)
    \o (IF r.phoneNumber = Undefined THEN << >> ELSE << << "phoneNumber", r.phoneNumber >> >>)
    \o (IF r.date = Undefined THEN << >> ELSE << << "date", r.date >> >>)
    \o (IF r.intervention = None THEN << >>
        ELSE << << "intervention", EncodeIntervention(r.intervention[1]) >> >>)
    \o << << "createdAt", r.createdAt >> >>

\* the text in the slot: absent (getItem gives null), text that is no JSON,
\* JSON that is no array, or a JSON array of encoded records
Blob(kind, items) == [ kind |-> kind, items |-> items ]

NoBlob == Blob("absent", << >>)

GarbageBlob == Blob("garbage", << >>)

NonArrayBlob == Blob("nonarray", << >>)

\* JSON.stringify(savedRecords)
Stringify(records) ==
    Blob("array", [ i \in 1..Len(records) |-> EncodeRecord(records[i]) ])

\* the member of a parsed object, or dflt when it has none
Member(obj, key, dflt) ==
    IF \E i \in 1..Len(obj) : obj[i][1] = key
    THEN obj[CHOOSE i \in 1..Len(obj) : obj[i][1] = key][2]
    ELSE dflt

DecodeIntervention(obj) ==
    [ description    |-> Member(obj, "description", Undefined),
      region         |-> Member(obj, "region", Undefined),
      isArthroscopic |-> Member(obj, "isArthroscopic", FALSE),
      isLCA          |-> Member(obj, "isLCA", FALSE),
      isKneeRelated  |-> Member(obj, "isKneeRelated", FALSE) ]

DecodeRecord(obj) ==
    [ id                |-> Member(obj, "id", 0),
      patientName       |-> Member(obj, "patientName", Undefined),
      clinicalHistoryId |-> Member(obj, "clinicalHistoryId", Undefined),
      phoneNumber       |-> Member(obj, "phoneNumber", Undefined),
      date              |-> Member(obj, "date", Undefined),
      intervention      |->
          IF \E i \in 1..Len(obj) : obj[i][1] = "intervention"
          THEN Some(DecodeIntervention(Member(obj, "intervention", << >>)))
          ELSE None,
      createdAt         |-> Member(obj, "createdAt", 0) ]

\* JSON.parse of an array blob
ParseArray(blob) == [ i \in 1..Len(blob.items) |-> DecodeRecord(blob.items[i]) ]

\* JSON.parse(saved) throws
ParseThrows(blob) == blob.kind = "garbage"


-----------------------------------------------------------------------------
(* History variables *)

\* the operation that produced the state: its name, whether it took its
\* success path, the id it was given, the image payload or the dictation
\* result it merged, which case of the operation the step was (read off
\* the state before it), and the download it handed to the browser
Op(op, ok, id, data, case) ==
    [ op |-> op, ok |-> ok, id |-> id, data |-> data, iv |-> None, case |-> case,
      out |-> None ]

Did(op) == Op(op, TRUE, 0, NoPayload, "")

\* the records start-up loaded, and the commits and the removals of a
\* present id since
NoTally == [ loaded |-> 0, commits |-> 0, removals |-> 0 ]

-----------------------------------------------------------------------------
(* Start-up: the two effects of App *)

\* what the load effect hands to setSavedRecords: nothing (slot absent, or
\* JSON.parse threw and the catch logged it), or the parsed value
LoadEffect(blob) ==
    IF blob.kind = "absent" \/ ParseThrows(blob) THEN None
    ELSE Some([ isArray |-> blob.kind = "array",
                items   |-> IF blob.kind = "array" THEN ParseArray(blob) ELSE << >> ])

\* (mutant) the persist effect with an empty dependency list: it never runs again
PersistNever(oldSlot, records) == oldSlot

\* the persist effect, run after a render in which savedRecords changed:
\* the slot is overwritten with the whole store
PersistEffect(oldSlot, records) == Stringify(records)

\* the first render has savedRecords = []; its effects run in source order
Mount ==
    /\ phase = "boot"
    /\ pendingLoad' = LoadEffect(slot)
    /\ slot' = PersistEffect(slot, savedRecords)
    /\ phase' = IF pendingLoad' = None THEN "ready" ELSE "loading"
    /\ last' = Op("mount", TRUE, 0, NoPayload, slot.kind)
    /\ UNCHANGED << now, currentRecord, imageBase64, savedRecords, loading, error,
                    isSuccess, timers, imageCalls, audioCalls, imageReads,
                    isRecording, audioReads, nextId, tally >>

\* the render that setSavedRecords(JSON.parse(saved)) schedules; a value that
\* is no array makes it throw (savedRecords.map is not a function), and React
\* unmounts the tree
MountRerender ==
    /\ phase = "loading"
    /\ pendingLoad' = None
    /\ last' = Op("rerender", pendingLoad[1].isArray, 0, NoPayload,
                   IF pendingLoad[1].isArray THEN "array" ELSE "nonarray")
    /\ IF pendingLoad[1].isArray
       THEN /\ savedRecords' = pendingLoad[1].items
            /\ slot' = PersistEffect(slot, savedRecords')
            /\ phase' = "ready"
            /\ tally' = [ tally EXCEPT !.loaded = Len(savedRecords') ]
       ELSE /\ phase' = "crashed"
            /\ UNCHANGED << savedRecords, slot, tally >>
    /\ UNCHANGED << now, currentRecord, imageBase64, loading, error, isSuccess,
                    timers, imageCalls, audioCalls, imageReads, isRecording,
                    audioReads, nextId >>

\* the page is closed and opened again: the component state is gone, the slot stays
Reload ==
    /\ phase # "boot"
    /\ phase' = "boot"
    /\ pendingLoad' = None
    /\ currentRecord' = FreshDraft(Today)
    /\ imageBase64' = Null
    /\ savedRecords' = << >>
    /\ loading' = [ image |-> FALSE, audio |-> FALSE ]
    /\ error' = Null
    /\ isSuccess' = FALSE
    /\ timers' = 0
    /\ imageCalls' = 0
    /\ audioCalls' = 0
    /\ imageReads' = 0
    /\ isRecording' = FALSE
    /\ audioReads' = 0
    /\ tally' = NoTally
    /\ last' = Did("reload")
    /\ UNCHANGED << slot, now, nextId >>

\* midnight passes
Tick ==
    /\ now < MaxNow
    /\ now' = now + 1
    /\ last' = Did("tick")
    /\ UNCHANGED << phase, slot, pendingLoad, currentRecord, imageBase64, savedRecords,
                    loading, error, isSuccess, timers, imageCalls, audioCalls,
                    imageReads, isRecording, audioReads, nextId, tally >>

Init ==
    /\ phase = "boot"
    /\ slot \in { NoBlob, GarbageBlob, NonArrayBlob }
    /\ pendingLoad = None
    /\ now = 1
    /\ currentRecord = FreshDraft(DateOf(1))
    /\ imageBase64 = Null
    /\ savedRecords = << >>
    /\ loading = [ image |-> FALSE, audio |-> FALSE ]
    /\ error = Null
    /\ isSuccess = FALSE
    /\ timers = 0
    /\ imageCalls = 0
    /\ audioCalls = 0
    /\ imageReads = 0
    /\ isRecording = FALSE
    /\ audioReads = 0
    /\ nextId = 1
    /\ tally = NoTally
    /\ last = Did("start")

-----------------------------------------------------------------------------
(* The record store *)

\* (mutant) the guard tests the patient name alone
ValidateNameOnly(draft) == Truthy(draft.patientName)

\* (mutant) the guard joins its two tests with && instead of ||
ValidateWithAnd(draft) ==
    ~ ( ~ Truthy(draft.patientName) /\ draft.intervention = None )

\* the guard of handleSaveRecord
ValidateForCommit(draft) ==
    ~ ( ~ Truthy(draft.patientName) \/ draft.intervention = None )

\* (mutant) the record built from the draft as it is, without the defaults
NewRecordNoDefaults(draft, id, clock) ==
    [ id                |-> id,
      patientName       |-> draft.patientName,
      clinicalHistoryId |-> draft.clinicalHistoryId,
      phoneNumber       |-> draft.phoneNumber,
      date              |-> draft.date,
      intervention      |-> draft.intervention,
      createdAt         |-> clock ]

\* the record handleSaveRecord builds
NewRecord(draft, id, clock) ==
    [ id                |-> id,
      patientName       |-> OrElse(draft.patientName, "Desconocido"),
      clinicalHistoryId |-> OrElse(draft.clinicalHistoryId, "S/N"),
      phoneNumber       |-> OrElse(draft.phoneNumber, ""),
      date              |-> OrElse(draft.date, DateOf(clock)),
      intervention      |-> draft.intervention,
      createdAt         |-> clock ]

\* (mutant) [...prev, newRecord]
AppendRecord(newRecord, prev) == prev \o << newRecord >>

\* prev => [newRecord, ...prev]
Prepend(newRecord, prev) == << newRecord >> \o prev

\* (mutant) prev.filter((r, i) => i + 1 !== id): the id taken for a position
FilterByPosition(prev, id) ==
    IF id \in 1..Len(prev)
    THEN SubSeq(prev, 1, id - 1) \o SubSeq(prev, id + 1, Len(prev))
    ELSE prev

\* (mutant) prev.filter(r => r.id === id)
KeepMatching(prev, id) == SelectSeq(prev, LAMBDA r : r.id = id)

\* prev => prev.filter(r => r.id !== id)
FilterOut(prev, id) == SelectSeq(prev, LAMBDA r : r.id # id)

IdsOf(records) == { records[i].id : i \in 1..Len(records) }

\* (mutant) the id is the position the record will take in the store
IdFromStoreSize(n) == Len(savedRecords) + 1

\* uuidv4(): the n-th call returns an id that no earlier call returned
uuidv4(n) == n

\* (mutant) a reset that drops the intervention and keeps the patient fields
ResetDraftKeepingPatient(clock) ==
    [ currentRecord EXCEPT !.date = DateOf(clock), !.intervention = None ]

\* (mutant) the day is computed once, when the module is loaded
ResetDraftStaleDate(clock) == FreshDraft(DateOf(1))

\* the draft reset of handleNewPatient
ResetDraft(clock) == FreshDraft(DateOf(clock))

\* (mutant) the disabled attribute without its isSuccess term
SaveDisabledIgnoringSuccess ==
    ~ Truthy(currentRecord.patientName) \/ currentRecord.intervention = None

\* the disabled attribute of the save button
SaveDisabled ==
    ~ Truthy(currentRecord.patientName) \/ currentRecord.intervention = None \/ isSuccess

\* handleSaveRecord, with at most cap ids handed out
CommitDraft(cap) ==
    /\ phase = "ready"
    /\ ValidateForCommit(currentRecord) => nextId <= cap
    /\ IF ~ ValidateForCommit(currentRecord)
       THEN /\ error' = SaveError
            /\ last' = Op("save", FALSE, 0, NoPayload, "")
            /\ UNCHANGED << savedRecords, slot, isSuccess, timers, nextId, tally >>
       ELSE /\ savedRecords' = Prepend(NewRecord(currentRecord, uuidv4(nextId), now), savedRecords)
            /\ slot' = PersistEffect(slot, savedRecords')
            /\ isSuccess' = TRUE
            /\ timers' = timers + 1
            /\ nextId' = nextId + 1
            /\ tally' = [ tally EXCEPT !.commits = @ + 1 ]
            /\ last' = Op("save", TRUE, uuidv4(nextId), NoPayload, "")
            /\ UNCHANGED error
    /\ UNCHANGED << phase, pendingLoad, now, currentRecord, imageBase64, loading,
                    imageCalls, audioCalls, imageReads, isRecording, audioReads >>

handleSaveRecord == CommitDraft(MaxIds)

\* the save button pressed on a draft of which every field may have been filled
SaveEditedDraft == CommitDraft(MaxRichIds)

\* the save button clicked: onClick={handleSaveRecord} runs only while the
\* button is not disabled
SaveButton ==
    /\ ~ SaveDisabled
    /\ CommitDraft(MaxButtonIds)

handleNewPatient ==
    /\ phase = "ready"
    /\ currentRecord' = ResetDraft(now)
    /\ imageBase64' = Null
    /\ error' = Null
    /\ last' = Did("newPatient")
    /\ UNCHANGED << phase, slot, pendingLoad, now, savedRecords, loading, isSuccess,
                    timers, imageCalls, audioCalls, imageReads, isRecording,
                    audioReads, nextId, tally >>

\* the setTimeout callback of handleSaveRecord
TimerFire ==
    /\ phase = "ready"
    /\ timers > 0
    /\ timers' = timers - 1
    /\ currentRecord' = ResetDraft(now)
    /\ imageBase64' = Null
    /\ error' = Null
    /\ isSuccess' = FALSE
    /\ last' = Did("timer")
    /\ UNCHANGED << phase, slot, pendingLoad, now, savedRecords, loading, imageCalls,
                    audioCalls, imageReads, isRecording, audioReads, nextId, tally >>

handleDeleteRecord ==
    /\ phase = "ready"
    /\ \E id \in 1..(nextId - 1) :
          /\ savedRecords' = FilterOut(savedRecords, id)
          /\ tally' = [ tally EXCEPT !.removals =
                            IF id \in IdsOf(savedRecords) THEN @ + 1 ELSE @ ]
          /\ last' = Op("delete", id \in IdsOf(savedRecords), id, NoPayload, "")
    /\ slot' = PersistEffect(slot, savedRecords')
    /\ error' = Null
    /\ UNCHANGED << phase, pendingLoad, now, currentRecord, imageBase64, loading,
                    isSuccess, timers, imageCalls, audioCalls, imageReads,
                    isRecording, audioReads, nextId >>

-----------------------------------------------------------------------------
(* The export: handleExportCSV *)

Headers ==
    << "ID", "Fecha", "HC", "Paciente", "Teléfono", "Intervención", "Región",
       "Artroscopia", "LCA", "Rodilla" >>

\* how Array.prototype.join and a template literal render a text member:
\* join renders undefined as the empty string
Text(v) == IF v = Undefined THEN "" ELSE v

\* Array.prototype.join
RECURSIVE Join(_, _)
Join(cells, sep) ==
    IF Len(cells) = 0 THEN ""
    ELSE IF Len(cells) = 1 THEN cells[1]
    ELSE cells[1] \o sep \o Join(Tail(cells), sep)

\* (mutant) s.replace('"', '""'): without the g flag only the first quotation
\* mark is doubled
DoubleFirstQuote(s) ==
    LET P == { i \in 1..Len(s) : SubSeq(s, i, i) = "\"" }
    IN  IF P = { } THEN s
        ELSE LET i == CHOOSE i \in P : \A j \in P : i <= j
             IN  SubSeq(s, 1, i) \o "\"" \o SubSeq(s, i + 1, Len(s))

\* s.replace(/"/g, '""'): character by character, computed on the two halves
\* of the text
RECURSIVE DoubleQuotes(_)
DoubleQuotes(s) ==
    IF Len(s) = 0 THEN ""
    ELSE IF Len(s) = 1 THEN (IF s = "\"" THEN "\"\"" ELSE s)
    ELSE DoubleQuotes(SubSeq(s, 1, Len(s) \div 2))
         \o DoubleQuotes(SubSeq(s, Len(s) \div 2 + 1, Len(s)))

YesNo(flag) == IF flag THEN "Sí" ELSE "No"

\* one element of rows: the ten cells of a record
CsvRow(r) ==
    << ToString(r.id),
       Text(r.date),
       Text(r.clinicalHistoryId),
       Text(r.patientName),
       "\"" \o OrElse(r.phoneNumber, "") \o "\"",
       "\"" \o (IF r.intervention = None THEN ""
                ELSE DoubleQuotes(Text(r.intervention[1].description))) \o "\"",
       IF r.intervention = None THEN "" ELSE OrElse(r.intervention[1].region, ""),
       YesNo(r.intervention # None /\ r.intervention[1].isArthroscopic),
       YesNo(r.intervention # None /\ r.intervention[1].isLCA),
       YesNo(r.intervention # None /\ r.intervention[1].isKneeRelated) >>

\* (mutant) the rows taken from the store back to front
CsvLinesOldestFirst(records) ==
    << Join(Headers, ",") >>
    \o [ i \in 1..Len(records) |-> Join(CsvRow(records[Len(records) + 1 - i]), ",") ]

\* the lines of the file: the header, then one line per record
CsvLines(records) ==
    << Join(Headers, ",") >>
    \o [ i \in 1..Len(records) |-> Join(CsvRow(records[i]), ",") ]

CsvContent(records) == "data:text/csv;charset=utf-8," \o Join(CsvLines(records), "\n")

\* encodeURI on one character, for the characters of the texts above: letters,
\* digits and ; , / ? : @ & = + $ - _ . ! ~ * ' ( ) # are left as they are
EncodeChar(c) ==
    CASE c = " "  -> "%20"
      [] c = "\"" -> "%22"
      [] c = "\n" -> "%0A"
      [] c = "%"  -> "%25"
      [] c = "é"  -> "%C3%A9"
      [] c = "í"  -> "%C3%AD"
      [] c = "ó"  -> "%C3%B3"
      [] OTHER    -> c

\* encodeURI: character by character, computed on the two halves of the text
RECURSIVE encodeURI(_)
encodeURI(s) ==
    IF Len(s) = 0 THEN ""
    ELSE IF Len(s) = 1 THEN EncodeChar(s)
    ELSE encodeURI(SubSeq(s, 1, Len(s) \div 2))
         \o encodeURI(SubSeq(s, Len(s) \div 2 + 1, Len(s)))

\* (mutant) the export without its first line
ExportLinkUngated(records, clock) ==
    Some([ href     |-> encodeURI(CsvContent(records)),
           download |-> "surgilog_export_" \o DateOf(clock) \o ".csv" ])

\* the link handleExportCSV clicks, or none when it returns at its first line
ExportLink(records, clock) ==
    IF Len(records) = 0 THEN None
    ELSE Some([ href     |-> encodeURI(CsvContent(records)),
                download |-> "surgilog_export_" \o DateOf(clock) \o ".csv" ])

\* the handler itself; its button is disabled while the store is empty
handleExportCSV ==
    /\ phase = "ready"
    /\ last' = [ Op("export", Len(savedRecords) # 0, 0, NoPayload, "")
                   EXCEPT !.out = ExportLink(savedRecords, now) ]
    /\ UNCHANGED << phase, slot, pendingLoad, now, currentRecord, imageBase64,
                    savedRecords, loading, error, isSuccess, timers, imageCalls,
                    audioCalls, imageReads, isRecording, audioReads, nextId, tally >>

-----------------------------------------------------------------------------
(* The draft: edits *)

EditPatientName ==
    /\ phase = "ready"
    /\ \E v \in Names : currentRecord' = [ currentRecord EXCEPT !.patientName = v ]
    /\ last' = Did("editName")
    /\ UNCHANGED << phase, slot, pendingLoad, now, imageBase64, savedRecords, loading,
                    error, isSuccess, timers, imageCalls, audioCalls, imageReads,
                    isRecording, audioReads, nextId, tally >>

-----------------------------------------------------------------------------
(* The audio channel: handleAudioReady *)

\* (mutant) the spread the wrong way round: the fields of the previous
\* intervention win over the result
MergeAudioUnderPrev(prev, interventionData) ==
    IF prev.intervention = None
    THEN [ prev EXCEPT !.intervention = Some(interventionData) ]
    ELSE prev

\* (mutant) the update without the spread of prev: only the date is carried over
MergeAudioNoSpread(prev, interventionData) ==
    [ FreshDraft(prev.date) EXCEPT !.intervention = Some(interventionData) ]

\* prev => ({...prev, intervention: interventionData})
MergeAudio(prev, interventionData) ==
    [ prev EXCEPT !.intervention = Some(interventionData) ]

\* (mutant) handleAudioReady without its finally block
KeepLoadingAudio(prev) == prev

\* finally: prev => ({...prev, audio: false})
FinallyAudio(prev) == [ prev EXCEPT !.audio = FALSE ]

\* how a dictation result relates to the intervention the draft holds
AudioCase(draft, data) ==
    IF draft.intervention = None THEN "first"
    ELSE LET old == draft.intervention[1] IN
         IF /\ old.description # data.description
            /\ old.region # data.region
            /\ old.isArthroscopic # data.isArthroscopic
            /\ old.isLCA # data.isLCA
            /\ old.isKneeRelated # data.isKneeRelated
         THEN "replacesAll"
         ELSE "replaces"

\* handleAudioReady up to its await: the call is made
StartAudioCall(cap) ==
    /\ phase = "ready"
    /\ audioCalls < cap
    /\ audioCalls' = audioCalls + 1
    /\ loading' = [ loading EXCEPT !.audio = TRUE ]
    /\ error' = Null
    /\ UNCHANGED << phase, slot, pendingLoad, now, currentRecord, imageBase64,
                    savedRecords, isSuccess, timers, imageCalls, imageReads, nextId, tally >>

\* the handler called with a finished recording
handleAudioReady ==
    /\ StartAudioCall(MaxCalls)
    /\ last' = Did("audioStart")
    /\ UNCHANGED << isRecording, audioReads >>

\* processInterventionAudio resolves: the rest of the try block, then finally
AudioExtractOk ==
    /\ phase = "ready"
    /\ audioCalls > 0
    /\ audioCalls' = audioCalls - 1
    /\ \E data \in AudioPayloads :
          /\ currentRecord' = MergeAudio(currentRecord, data)
          /\ last' = [ Op("audioOk", TRUE, 0, NoPayload, AudioCase(currentRecord, data))
                          EXCEPT !.iv = Some(data) ]
    /\ loading' = FinallyAudio(loading)
    /\ UNCHANGED << phase, slot, pendingLoad, now, imageBase64, savedRecords, error,
                    isSuccess, timers, imageCalls, imageReads, isRecording, audioReads,
                    nextId, tally >>

\* processInterventionAudio rejects: catch, then finally
AudioExtractFail ==
    /\ phase = "ready"
    /\ audioCalls > 0
    /\ audioCalls' = audioCalls - 1
    /\ error' = AudioError
    /\ loading' = FinallyAudio(loading)
    /\ last' = Op("audioFail", FALSE, 0, NoPayload, "")
    /\ UNCHANGED << phase, slot, pendingLoad, now, currentRecord, imageBase64,
                    savedRecords, isSuccess, timers, imageCalls, imageReads,
                    isRecording, audioReads, nextId, tally >>

-----------------------------------------------------------------------------
(* The draft: the other edits *)

EditClinicalHistoryId ==
    /\ phase = "ready"
    /\ \E v \in HcIds : currentRecord' = [ currentRecord EXCEPT !.clinicalHistoryId = v ]
    /\ last' = Did("edit")
    /\ UNCHANGED << phase, slot, pendingLoad, now, imageBase64, savedRecords, loading,
                    error, isSuccess, timers, imageCalls, audioCalls, imageReads,
                    isRecording, audioReads, nextId, tally >>

EditPhoneNumber ==
    /\ phase = "ready"
    /\ \E v \in Phones : currentRecord' = [ currentRecord EXCEPT !.phoneNumber = v ]
    /\ last' = Did("edit")
    /\ UNCHANGED << phase, slot, pendingLoad, now, imageBase64, savedRecords, loading,
                    error, isSuccess, timers, imageCalls, audioCalls, imageReads,
                    isRecording, audioReads, nextId, tally >>

EditDate ==
    /\ phase = "ready"
    /\ \E v \in PickedDates : currentRecord' = [ currentRecord EXCEPT !.date = v ]
    /\ last' = Did("edit")
    /\ UNCHANGED << phase, slot, pendingLoad, now, imageBase64, savedRecords, loading,
                    error, isSuccess, timers, imageCalls, audioCalls, imageReads,
                    isRecording, audioReads, nextId, tally >>

\* the textarea is rendered only while the draft holds an intervention
EditDescription ==
    /\ phase = "ready"
    /\ currentRecord.intervention # None
    /\ \E v \in Descriptions :
          currentRecord' =
              [ currentRecord EXCEPT !.intervention = Some([ @[1] EXCEPT !.description = v ]) ]
    /\ last' = Did("edit")
    /\ UNCHANGED << phase, slot, pendingLoad, now, imageBase64, savedRecords, loading,
                    error, isSuccess, timers, imageCalls, audioCalls, imageReads,
                    isRecording, audioReads, nextId, tally >>

\* (mutant) {...prev.intervention, [field]: true}: the flag set, not inverted
ToggleFieldSetTrue(iv, field) == [ iv EXCEPT ![field] = TRUE ]

\* {...prev.intervention, [field]: !prev.intervention[field]}
ToggleField(iv, field) == [ iv EXCEPT ![field] = ~ @ ]

\* (mutant) no early return, and a spread that tolerates the missing
\* intervention: {...prev, intervention: {...prev.intervention, [field]: true}}
ToggleDraftPhantom(prev, field) ==
    IF prev.intervention = None
    THEN [ prev EXCEPT !.intervention =
             Some([ [ description |-> Undefined, region |-> Undefined,
                      isArthroscopic |-> FALSE, isLCA |-> FALSE,
                      isKneeRelated |-> FALSE ] EXCEPT ![field] = TRUE ]) ]
    ELSE [ prev EXCEPT !.intervention = Some(ToggleField(@[1], field)) ]

\* the early return on a draft without intervention, else the update
\* prev => ({...prev, intervention: {...prev.intervention, [field]: !...}})
ToggleDraft(prev, field) ==
    IF prev.intervention = None
    THEN prev
    ELSE [ prev EXCEPT !.intervention = Some(ToggleField(@[1], field)) ]

\* (mutant) prev.intervention[field] = !prev.intervention[field]: the flag
\* written into the object itself, which the record committed from this
\* draft holds as well until the draft is reset
StoreAfterToggleInPlace(records, prev, field) ==
    IF /\ records # << >>
       /\ timers > 0
       /\ prev.intervention # None
       /\ Head(records).intervention = prev.intervention
    THEN [ records EXCEPT ![1].intervention = Some(ToggleField(@[1], field)) ]
    ELSE records

\* what the update does to the objects the store holds: nothing. The spread
\* builds a new intervention object, so the object that newRecord took over
\* from the draft (intervention: currentRecord.intervention!) is not written
StoreAfterToggle(records, prev, field) == records

\* the handler itself; its three buttons are rendered only while the draft
\* holds an intervention
toggleBooleanIntervention ==
    /\ phase = "ready"
    /\ \E field \in Flags :
          /\ currentRecord' = ToggleDraft(currentRecord, field)
          /\ savedRecords' = StoreAfterToggle(savedRecords, currentRecord, field)
          /\ last' = Op("toggle", currentRecord.intervention # None, 0, NoPayload, field)
    /\ UNCHANGED << phase, slot, pendingLoad, now, imageBase64, loading,
                    error, isSuccess, timers, imageCalls, audioCalls, imageReads,
                    isRecording, audioReads, nextId, tally >>

-----------------------------------------------------------------------------
(* The image channel: handleImageSelected and onClear *)

\* the base64 text of the picked document
Images == { "ficha" }

\* (mutant) the merge without the spread of prev: only the date is carried over
MergeImageNoSpread(prev, data) ==
    [ patientName       |-> data.patientName,
      clinicalHistoryId |-> data.clinicalHistoryId,
      phoneNumber       |-> data.phoneNumber,
      date              |-> prev.date,
      intervention      |-> None ]

\* (mutant) a merge that keeps what the draft holds where the document gave
\* nothing: patientName: data.patientName || prev.patientName, ...
MergeImageKeepingTyped(prev, data) ==
    [ prev EXCEPT !.patientName = OrElse(data.patientName, prev.patientName),
                  !.clinicalHistoryId = OrElse(data.clinicalHistoryId, prev.clinicalHistoryId),
                  !.phoneNumber = OrElse(data.phoneNumber, prev.phoneNumber) ]

\* (mutant) the commented-out line of the merge: date: data.date || prev.date
MergeImageWithDate(prev, data) ==
    [ prev EXCEPT !.patientName = data.patientName,
                  !.clinicalHistoryId = data.clinicalHistoryId,
                  !.phoneNumber = data.phoneNumber,
                  !.date = OrElse(data.date, prev.date) ]

\* prev => ({...prev, patientName, clinicalHistoryId, phoneNumber})
MergeImage(prev, data) ==
    [ prev EXCEPT !.patientName = data.patientName,
                  !.clinicalHistoryId = data.clinicalHistoryId,
                  !.phoneNumber = data.phoneNumber ]

\* (mutant) no finally block: the flag stays set
KeepLoading(prev) == prev

\* finally: prev => ({...prev, image: false})
FinallyImage(prev) == [ prev EXCEPT !.image = FALSE ]

\* how a document result relates to the draft it is merged into: whether it
\* carries a date other than the draft's, and whether the draft holds a name
\* other than the one read from the document
ImageCase(draft, data) ==
    (IF data.date # "" /\ data.date # draft.date THEN "otherDate" ELSE "sameDate")
    \o (IF Truthy(draft.patientName) /\ draft.patientName # data.patientName
        THEN "+typed" ELSE "")

\* handleImageSelected up to its await: the call is made
StartImageCall(cap) ==
    /\ phase = "ready"
    /\ imageCalls < cap
    /\ imageCalls' = imageCalls + 1
    /\ \E base64 \in Images : imageBase64' = base64
    /\ loading' = [ loading EXCEPT !.image = TRUE ]
    /\ error' = Null
    /\ UNCHANGED << phase, slot, pendingLoad, now, currentRecord, savedRecords,
                    isSuccess, timers, audioCalls, isRecording, audioReads, nextId, tally >>

\* the handler called with a read document
handleImageSelected ==
    /\ StartImageCall(MaxCalls)
    /\ last' = Did("imageStart")
    /\ UNCHANGED imageReads

\* extractPatientDataFromImage resolves: the rest of the try block, then finally
ImageExtractOk ==
    /\ phase = "ready"
    /\ imageCalls > 0
    /\ imageCalls' = imageCalls - 1
    /\ \E data \in ImagePayloads :
          /\ currentRecord' = MergeImage(currentRecord, data)
          /\ last' = Op("imageOk", TRUE, 0, data, ImageCase(currentRecord, data))
    /\ loading' = FinallyImage(loading)
    /\ UNCHANGED << phase, slot, pendingLoad, now, imageBase64, savedRecords, error,
                    isSuccess, timers, audioCalls, imageReads, isRecording, audioReads,
                    nextId, tally >>

\* extractPatientDataFromImage rejects: catch, then finally
ImageExtractFail ==
    /\ phase = "ready"
    /\ imageCalls > 0
    /\ imageCalls' = imageCalls - 1
    /\ error' = ImageError
    /\ loading' = FinallyImage(loading)
    /\ last' = Op("imageFail", FALSE, 0, NoPayload, "")
    /\ UNCHANGED << phase, slot, pendingLoad, now, currentRecord, imageBase64,
                    savedRecords, isSuccess, timers, audioCalls, imageReads,
                    isRecording, audioReads, nextId, tally >>

\* the onClear of ImageUpload; its button is rendered with the preview
onClear ==
    /\ phase = "ready"
    /\ imageBase64 # Null
    /\ imageBase64' = Null
    /\ currentRecord' = [ currentRecord EXCEPT !.patientName = "",
                                               !.clinicalHistoryId = "",
                                               !.phoneNumber = "" ]
    /\ last' = Did("clear")
    /\ UNCHANGED << phase, slot, pendingLoad, now, savedRecords, loading, error,
                    isSuccess, timers, imageCalls, audioCalls, imageReads,
                    isRecording, audioReads, nextId, tally >>

-----------------------------------------------------------------------------
(* The record store and its persistence *)

Next ==
    \/ Mount
    \/ MountRerender
    \/ Reload
    \/ EditPatientName
    \/ handleAudioReady
    \/ AudioExtractOk
    \/ AudioExtractFail
    \/ handleSaveRecord
    \/ handleNewPatient
    \/ TimerFire
    \/ handleDeleteRecord

Spec == Init /\ [][Next]_vars

-----------------------------------------------------------------------------
(* The draft builder *)

NextDraft ==
    \/ Mount
    \/ MountRerender
    \/ EditPatientName
    \/ EditClinicalHistoryId
    \/ EditPhoneNumber
    \/ EditDate
    \/ EditDescription
    \/ toggleBooleanIntervention
    \/ handleImageSelected
    \/ ImageExtractOk
    \/ ImageExtractFail
    \/ onClear
    \/ handleAudioReady
    \/ AudioExtractOk
    \/ AudioExtractFail
    \/ handleNewPatient

SpecDraft == Init /\ [][NextDraft]_vars

\* the extraction service answers or fails in the end, and the browser then
\* runs the continuation of the handler that awaits it
SpecDraftLive ==
    /\ SpecDraft
    /\ WF_vars(ImageExtractOk \/ ImageExtractFail)
    /\ WF_vars(AudioExtractOk \/ AudioExtractFail)

-----------------------------------------------------------------------------
(* The capture widgets: ImageUpload and AudioRecorder *)

\* ImageUpload.handleFile: a file that is no image is refused with an alert,
\* an image is handed to a FileReader
HandleFile(isImage) ==
    /\ imageReads + imageCalls < MaxPending
    /\ imageReads' = IF isImage THEN imageReads + 1 ELSE imageReads

\* handleChange of the two file inputs: they are rendered while there is no
\* preview, and disabled while isProcessing
PickFile ==
    /\ phase = "ready"
    /\ imageBase64 = Null
    /\ ~ loading.image
    /\ \E isImage \in BOOLEAN : HandleFile(isImage)
    /\ last' = Did("pick")
    /\ UNCHANGED << phase, slot, pendingLoad, now, currentRecord, imageBase64,
                    savedRecords, loading, error, isSuccess, timers, imageCalls,
                    audioCalls, isRecording, audioReads, nextId, tally >>

\* handleDrop of the drop zone, rendered while there is no preview
DropFile ==
    /\ phase = "ready"
    /\ imageBase64 = Null
    /\ \E isImage \in BOOLEAN : HandleFile(isImage)
    /\ last' = Did("drop")
    /\ UNCHANGED << phase, slot, pendingLoad, now, currentRecord, imageBase64,
                    savedRecords, loading, error, isSuccess, timers, imageCalls,
                    audioCalls, isRecording, audioReads, nextId, tally >>

\* reader.onloadend of handleFile: onImageSelected(base64Data, file.type)
ImageReaderDone ==
    /\ imageReads > 0
    /\ imageReads' = imageReads - 1
    /\ StartImageCall(MaxPending)
    /\ last' = Did("imageStart")

\* startRecording; its button is rendered while not recording and disabled
\* while isProcessing. getUserMedia may refuse the microphone.
startRecording ==
    /\ phase = "ready"
    /\ ~ isRecording
    /\ ~ loading.audio
    /\ \E granted \in BOOLEAN : isRecording' = granted
    /\ last' = Did("record")
    /\ UNCHANGED << phase, slot, pendingLoad, now, currentRecord, imageBase64,
                    savedRecords, loading, error, isSuccess, timers, imageCalls,
                    audioCalls, imageReads, audioReads, nextId, tally >>

\* stopRecording, and the onstop it triggers: the recording goes to a FileReader
stopRecording ==
    /\ phase = "ready"
    /\ isRecording
    /\ audioReads + audioCalls < MaxPending
    /\ isRecording' = FALSE
    /\ audioReads' = audioReads + 1
    /\ last' = Did("stop")
    /\ UNCHANGED << phase, slot, pendingLoad, now, currentRecord, imageBase64,
                    savedRecords, loading, error, isSuccess, timers, imageCalls,
                    audioCalls, imageReads, nextId, tally >>

\* reader.onloadend of onstop: onAudioReady(base64Data, mimeType)
AudioReaderDone ==
    /\ audioReads > 0
    /\ audioReads' = audioReads - 1
    /\ StartAudioCall(MaxPending)
    /\ last' = Did("audioStart")
    /\ UNCHANGED isRecording

NextUI ==
    \/ Mount
    \/ MountRerender
    \/ Tick
    \/ PickFile
    \/ DropFile
    \/ ImageReaderDone
    \/ ImageExtractOk
    \/ ImageExtractFail
    \/ onClear
    \/ startRecording
    \/ stopRecording
    \/ AudioReaderDone
    \/ AudioExtractOk
    \/ AudioExtractFail
    \/ handleNewPatient

SpecUI == Init /\ [][NextUI]_vars

-----------------------------------------------------------------------------
(* The record store and its export *)

NextExport ==
    \/ Mount
    \/ MountRerender
    \/ EditPatientName
    \/ handleAudioReady
    \/ AudioExtractOk
    \/ AudioExtractFail
    \/ handleSaveRecord
    \/ TimerFire
    \/ handleDeleteRecord
    \/ handleExportCSV

SpecExport == Init /\ [][NextExport]_vars

-----------------------------------------------------------------------------
(* The export of records whose texts hold commas and quotation marks *)

\* texts as they are typed into the inputs or returned by the extractions,
\* some with the characters that have a meaning in a CSV file
CsvNames == { "Ana Gomez", "Gomez, Ana", "Ana \"Ani\" Gomez" }

CsvHcIds == { "123", "12,3" }

CsvPhones == { "555-0101", "555 \"casa\"", "555-0101, 555-0102" }

CsvDescriptions == { "Meniscectomy", "He said \"ok\"", "Sutura, lavado" }

\* the records handleSaveRecord builds from drafts that hold such texts
CsvRecords ==
    { NewRecord([ patientName       |-> name,
                  clinicalHistoryId |-> hc,
                  phoneNumber       |-> phone,
                  date              |-> DateOf(1),
                  intervention      |-> Some([ IvA EXCEPT !.description = desc ]) ],
                uuidv4(1), 1) :
        name \in CsvNames, hc \in CsvHcIds, phone \in CsvPhones,
        desc \in CsvDescriptions }

\* the page opened on a slot that an earlier session left with one such record
InitCsv ==
    /\ phase = "boot"
    /\ slot \in { Stringify(<< r >>) : r \in CsvRecords }
    /\ pendingLoad = None
    /\ now = 1
    /\ currentRecord = FreshDraft(DateOf(1))
    /\ imageBase64 = Null
    /\ savedRecords = << >>
    /\ loading = [ image |-> FALSE, audio |-> FALSE ]
    /\ error = Null
    /\ isSuccess = FALSE
    /\ timers = 0
    /\ imageCalls = 0
    /\ audioCalls = 0
    /\ imageReads = 0
    /\ isRecording = FALSE
    /\ audioReads = 0
    /\ nextId = 2
    /\ tally = NoTally
    /\ last = Did("start")

NextCsv ==
    \/ Mount
    \/ MountRerender
    \/ handleExportCSV

SpecCsv == InitCsv /\ [][NextCsv]_vars

-----------------------------------------------------------------------------
(* Committing a draft of which every field was filled, by the name and date *)
(* inputs and by the two extractions, with the clock running                 *)

NextCommit ==
    \/ Mount
    \/ MountRerender
    \/ Tick
    \/ EditPatientName
    \/ EditDate
    \/ handleImageSelected
    \/ ImageExtractOk
    \/ ImageExtractFail
    \/ onClear
    \/ handleAudioReady
    \/ AudioExtractOk
    \/ AudioExtractFail
    \/ SaveEditedDraft
    \/ handleNewPatient
    \/ TimerFire

SpecCommit == Init /\ [][NextCommit]_vars

\* the browser runs a timer callback that is due
SpecCommitLive == SpecCommit /\ WF_vars(TimerFire)

-----------------------------------------------------------------------------
(* The save button, with the draft toggled and edited around the commit *)

NextButton ==
    \/ Mount
    \/ MountRerender
    \/ EditPatientName
    \/ toggleBooleanIntervention
    \/ handleAudioReady
    \/ AudioExtractOk
    \/ AudioExtractFail
    \/ SaveButton
    \/ handleNewPatient
    \/ TimerFire
    \/ handleDeleteRecord

SpecButton == Init /\ [][NextButton]_vars

-----------------------------------------------------------------------------
(* Properties of the save button (checked under SpecButton) *)

\* C28: each draft produces at most one record. From a successful commit
\* until the reset its timer runs the success indicator is set and the save
\* button is disabled, so a commit succeeds only when the reset of every
\* earlier commit has run: right after it, its timer is the only one.
C28_OneRecordPerDraft ==
    /\ timers > 0 => isSuccess /\ SaveDisabled
    /\ (last.op = "save" /\ last.ok) => timers = 1

\* a second commit, of the draft that followed the first one's reset
C28_Witness ==
    /\ last.op = "save"
    /\ last.ok
    /\ last.id = 2
    /\ Len(savedRecords) = 2

\* C29: a committed record is immutable. Whatever the step (an edit, a
\* toggle or a merge on the draft before the timer resets it, a later
\* commit, the removal of another record), a record that is in the store
\* before the step and whose id is still in the store after it has the same
\* id, patient fields, date, createdAt and intervention as before.
C29_CommittedRecordImmutable ==
    [][ \A i \in 1..Len(savedRecords) : \A j \in 1..Len(savedRecords') :
            savedRecords'[j].id = savedRecords[i].id =>
                savedRecords'[j] = savedRecords[i] ]_vars

\* a flag toggled on the draft that has just been committed: draft and
\* record now differ, while the timer has not run yet
C29_Witness ==
    /\ last.op = "toggle"
    /\ last.ok
    /\ timers > 0
    /\ savedRecords # << >>
    /\ Head(savedRecords).intervention # currentRecord.intervention
    /\ Head(savedRecords).patientName = currentRecord.patientName

-----------------------------------------------------------------------------
(* Properties of the commit (checked under SpecCommit and SpecCommitLive) *)

\* C14: every successful commit is followed by the reset its timer runs: the
\* draft is then the empty draft dated with the current day (no patient name,
\* no clinical-history id, no phone number, no intervention), the image
\* preview is gone and the success indicator is cleared, so that the save
\* button is no longer held disabled by it.
C14_CommitThenFreshDraft ==
    /\ (last.op = "save" /\ last.ok) ~>
           ( /\ last.op = "timer"
             /\ currentRecord.patientName = Undefined
             /\ currentRecord.clinicalHistoryId = Undefined
             /\ currentRecord.phoneNumber = Undefined
             /\ currentRecord.intervention = None
             /\ currentRecord.date = Today
             /\ imageBase64 = Null
             /\ ~ isSuccess )
    /\ [] ( (last.op = "save" /\ last.ok) => (isSuccess /\ timers > 0) )
    /\ [][ last'.op = "timer" =>
              /\ currentRecord' = FreshDraft(DateOf(now))
              /\ imageBase64' = Null
              /\ ~ isSuccess' ]_vars

\* the reset ran the day after the commit: the store holds the record of
\* day 1, the draft is empty and dated day 2
C14_Witness ==
    /\ last.op = "timer"
    /\ now = 2
    /\ Len(savedRecords) = 1
    /\ savedRecords[1].createdAt = 1
    /\ savedRecords[1].patientName = "Ana Gomez"
    /\ currentRecord = FreshDraft(DateOf(2))
    /\ ~ isSuccess
    /\ timers = 0

\* C18: the record of a successful commit has the patient name and the
\* intervention of the draft, the clinical-history id of the draft or "S/N"
\* where that is empty or absent, the phone number of the draft or the empty
\* string where that is absent, and the date of the draft or the current day
\* where the date was cleared.
C18_CommittedRecordFields ==
    [][ (last'.op = "save" /\ last'.ok) =>
          LET r == Head(savedRecords')
              d == currentRecord
          IN  /\ r.patientName = d.patientName
              /\ r.intervention = d.intervention
              /\ r.clinicalHistoryId =
                    IF d.clinicalHistoryId \in { Undefined, "" } THEN "S/N"
                    ELSE d.clinicalHistoryId
              /\ r.phoneNumber = IF d.phoneNumber = Undefined THEN "" ELSE d.phoneNumber
              /\ r.date = IF d.date \in { Undefined, "" } THEN DateOf(now) ELSE d.date ]_vars

\* on day 2 a draft was committed whose date was cleared and whose document
\* gave no clinical-history id and no phone number
C18_Witness ==
    /\ last.op = "save"
    /\ last.ok
    /\ now = 2
    /\ currentRecord.date = ""
    /\ currentRecord.clinicalHistoryId = ""
    /\ currentRecord.intervention = Some(IvB)
    /\ savedRecords[1].patientName = "Ana Gomez"
    /\ savedRecords[1].clinicalHistoryId = "S/N"
    /\ savedRecords[1].phoneNumber = ""
    /\ savedRecords[1].date = "2024-05-02"
    /\ savedRecords[1].intervention = Some(IvB)

\* C19: handleNewPatient replaces the draft by the draft whose only field is
\* the date of the current day, clears the image preview and the error, and
\* leaves the store, the slot and the two processing flags as they were.
C19_ResetFrame ==
    [][ last'.op = "newPatient" =>
          /\ currentRecord' = [ patientName       |-> Undefined,
                                clinicalHistoryId |-> Undefined,
                                phoneNumber       |-> Undefined,
                                date              |-> DateOf(now),
                                intervention      |-> None ]
          /\ imageBase64' = Null
          /\ error' = Null
          /\ savedRecords' = savedRecords
          /\ slot' = slot
          /\ loading' = loading ]_vars

\* on day 2 the draft was reset while a document extraction was running,
\* with a record in the store
C19_Witness ==
    /\ last.op = "newPatient"
    /\ now = 2
    /\ currentRecord = FreshDraft("2024-05-02")
    /\ imageBase64 = Null
    /\ error = Null
    /\ loading.image
    /\ imageCalls = 1
    /\ Len(savedRecords) = 1
    /\ slot = Stringify(savedRecords)

\* C25: the result of an extraction that was started before a reset of the
\* draft is not merged into the draft the reset created. Stated on the
\* result that arrives as the first event after a reset, by hand or by the
\* timer of a commit: its call was started before the reset, so the draft
\* stays as the reset left it.
C25_StaleResultNotMerged ==
    [][ ( /\ last.op \in { "newPatient", "timer" }
          /\ last'.op \in { "imageOk", "audioOk" } ) =>
            currentRecord' = currentRecord ]_vars

\* C26: the reset that the timer of a commit runs leaves in the draft what
\* was put there after the commit. Stated on the step right before the
\* timer runs, which comes after the commit: a name typed, a dictation
\* result merged or a document result merged by that step is still in the
\* draft after the reset.
C26_AutoResetKeepsLaterData ==
    [][ last'.op = "timer" =>
          /\ last.op = "editName" =>
                currentRecord'.patientName = currentRecord.patientName
          /\ last.op = "audioOk" =>
                currentRecord'.intervention = currentRecord.intervention
          /\ last.op = "imageOk" =>
                /\ currentRecord'.patientName = currentRecord.patientName
                /\ currentRecord'.clinicalHistoryId = currentRecord.clinicalHistoryId
                /\ currentRecord'.phoneNumber = currentRecord.phoneNumber ]_vars

\* C27: start-up never loses persisted records. While the records read
\* from the slot wait for the render that puts them in the store, and so
\* before any commit or removal, the slot still holds the sequence that was
\* read from it.
C27_StartupKeepsSlot ==
    ( /\ phase = "loading"
      /\ pendingLoad[1].isArray ) =>
        /\ slot.kind = "array"
        /\ ParseArray(slot) = pendingLoad[1].items

-----------------------------------------------------------------------------
(* Properties of the record store (checked under Spec) *)

\* a draft lacks a required field: no patient name, or no intervention
MissingRequired(draft) ==
    \/ draft.patientName = Undefined
    \/ draft.patientName = ""
    \/ draft.intervention = None

\* C1: handleSaveRecord rejects the draft (the store is left as it was and the
\* missing-fields error is set) exactly when the draft has no patient name or
\* no intervention; on every other draft it adds exactly one record to the
\* store, in front of the records that were there.
C1_CommitRejectedIffMissing ==
    [][ last'.op = "save" =>
          /\ MissingRequired(currentRecord) =>
                (savedRecords' = savedRecords /\ error' = SaveError)
          /\ ~ MissingRequired(currentRecord) =>
                /\ Len(savedRecords') = Len(savedRecords) + 1
                /\ Tail(savedRecords') = savedRecords
                /\ Head(savedRecords').id \notin IdsOf(savedRecords) ]_vars

\* a commit succeeded while the error of an earlier rejected commit still shows
C1_Witness ==
    /\ last.op = "save"
    /\ last.ok
    /\ error = SaveError
    /\ Len(savedRecords) >= 2

\* C2: the store lists its records most recently committed first (ids are
\* handed out in commit order), whatever commits and removals came before.
C2_ReverseCommitOrder ==
    phase = "ready" =>
        \A i, j \in 1..Len(savedRecords) :
            i < j => savedRecords[i].id > savedRecords[j].id

\* a removal from the middle left two records, still newest first
C2_Witness ==
    /\ last.op = "delete"
    /\ last.ok
    /\ Len(savedRecords) = 2
    /\ savedRecords[1].id = last.id + 1
    /\ savedRecords[2].id = last.id - 1

\* C3: starting from an empty store, the store holds as many records as
\* commits succeeded minus removals that found their id in the store.
C3_SizeIsCommitsMinusRemovals ==
    (phase = "ready" /\ tally.loaded = 0) =>
        Len(savedRecords) = tally.commits - tally.removals

\* after two commits and one removal, a removal of the id already removed
C3_Witness ==
    /\ phase = "ready"
    /\ tally.loaded = 0
    /\ tally.commits = 2
    /\ tally.removals = 1
    /\ last.op = "delete"
    /\ ~ last.ok

\* C4: once a commit or a removal has completed, the slot holds the
\* serialization of the store in memory.
C4_PersistedEqualsStore ==
    (phase = "ready" /\ (tally.commits > 0 \/ tally.removals > 0 \/ last.op = "delete")) =>
        slot = Stringify(savedRecords)

\* a removal left a store that is not empty, and the slot holds it
C4_Witness ==
    /\ last.op = "delete"
    /\ last.ok
    /\ Len(savedRecords) >= 1
    /\ slot.kind = "array"
    /\ Len(slot.items) = Len(savedRecords)

\* C11: no two records in the store share an id, and a commit gives its
\* record an id that none of the ids handed out before it equals, the ids of
\* records removed since included (the ids handed out are 1..nextId-1).
C11_IdsUniqueNeverReused ==
    /\ [] ( \A i, j \in 1..Len(savedRecords) :
               i # j => savedRecords[i].id # savedRecords[j].id )
    /\ [] ( IdsOf(savedRecords) \subseteq 1..(nextId - 1) )
    /\ [][ (last'.op = "save" /\ last'.ok) =>
              /\ Head(savedRecords').id = last'.id
              /\ last'.id \notin 1..(nextId - 1)
              /\ last'.id \in 1..(nextId' - 1) ]_vars

\* a commit after the removal of the record with id 2: the new record has
\* id 3 and stands in front of the record with id 1
C11_Witness ==
    /\ last.op = "save"
    /\ last.ok
    /\ last.id = 3
    /\ Len(savedRecords) = 2
    /\ savedRecords[1].id = 3
    /\ savedRecords[2].id = 1

\* C12: removing an id that is not in the store leaves the store as it was
\* (contents, size and order), and removing the id that the step before
\* removed changes nothing more.
C12_RemoveAbsentIsNoOp ==
    [][ last'.op = "delete" =>
          /\ last'.id \notin IdsOf(savedRecords) => savedRecords' = savedRecords
          /\ (last.op = "delete" /\ last.id = last'.id) => savedRecords' = savedRecords
          /\ last'.id \notin IdsOf(savedRecords') ]_vars

\* the record with id 2 was removed from between two others, and the removal
\* of id 2 was asked for again
C12_Witness ==
    /\ last.op = "delete"
    /\ ~ last.ok
    /\ last.id = 2
    /\ Len(savedRecords) = 2
    /\ savedRecords[1].id = 3
    /\ savedRecords[2].id = 1
    /\ slot = Stringify(savedRecords)

\* C13: what the persist effect writes, the load effect of the next start
\* reads back as the same records in the same order: every store the
\* application reaches survives JSON.stringify then JSON.parse unchanged, the
\* load effect hands to setSavedRecords the records whose serialization the
\* slot held, and the render that follows makes them the store.
C13_PersistLoadRoundTrip ==
    /\ [] ( ParseArray(Stringify(savedRecords)) = savedRecords )
    /\ [][ (last'.op = "mount" /\ slot.kind = "array") =>
              /\ pendingLoad' # None
              /\ pendingLoad'[1].isArray
              /\ Stringify(pendingLoad'[1].items) = slot ]_vars
    /\ [][ (last'.op = "rerender" /\ last'.ok) =>
              savedRecords' = pendingLoad[1].items ]_vars

\* a start-up has read back two records, the newer one with a description
\* that holds quotation marks and an empty phone number
C13_Witness ==
    /\ last.op = "rerender"
    /\ last.ok
    /\ tally.loaded = 2
    /\ Len(savedRecords) = 2
    /\ savedRecords[1].id > savedRecords[2].id
    /\ savedRecords[1].intervention = Some(IvB)
    /\ savedRecords[1].phoneNumber = ""
    /\ savedRecords[2].intervention = Some(IvA)

\* C9: when start-up finds the slot absent, or holding text that does not
\* decode to a sequence of records, the load ends with the application
\* running and the store empty.
C9_CorruptBlobGivesEmptyStore ==
    ( /\ last.op \in { "mount", "rerender" }
      /\ phase # "loading"
      /\ last.case \in { "absent", "garbage", "nonarray" } ) =>
        (phase = "ready" /\ savedRecords = << >>)

\* C10: a rejected commit changes neither the draft nor the store nor the
\* slot, schedules no draft reset, and sets the missing-fields error.
C10_RejectedCommitChangesNothing ==
    [][ (last'.op = "save" /\ MissingRequired(currentRecord)) =>
          /\ currentRecord' = currentRecord
          /\ savedRecords' = savedRecords
          /\ slot' = slot
          /\ timers' = timers
          /\ isSuccess' = isSuccess
          /\ error' = SaveError ]_vars

\* a commit was rejected for the missing name, with a dictated intervention in
\* the draft and a record in the store
C10_Witness ==
    /\ last.op = "save"
    /\ ~ last.ok
    /\ error = SaveError
    /\ currentRecord.intervention # None
    /\ Len(savedRecords) >= 1
    /\ timers = 0

-----------------------------------------------------------------------------
(* Properties of the export (checked under SpecExport) *)

\* C20: an export of the empty store completes and hands over a file that
\* holds the header row and no data row.
C20_EmptyExportGivesHeaderRow ==
    (last.op = "export" /\ Len(savedRecords) = 0) =>
        /\ last.out # None
        /\ last.out[1].href =
              encodeURI("data:text/csv;charset=utf-8," \o Join(Headers, ","))

\* C20 (amended): an export of the empty store completes and hands over
\* nothing, not even the header row; an export of a store that holds
\* records hands over a file.
C20_EmptyExportGivesNothing ==
    last.op = "export" =>
        /\ phase = "ready"
        /\ Len(savedRecords) = 0 => last.out = None
        /\ Len(savedRecords) > 0 => last.out # None

\* the export was asked for after two commits and the removal of both records
C20_Witness ==
    /\ last.op = "export"
    /\ ~ last.ok
    /\ last.out = None
    /\ Len(savedRecords) = 0
    /\ tally.commits = 2
    /\ tally.removals = 2
    /\ slot = Stringify(<< >>)

\* the places of a text where a separator stands
SepAt(s, sep) ==
    { i \in 1..(Len(s) - Len(sep) + 1) : SubSeq(s, i, i + Len(sep) - 1) = sep }

\* the pieces of a text between its separators
Split(s, sep) ==
    LET P == SepAt(s, sep)
        n == Cardinality(P)
        pos == [ k \in 0..(n + 1) |->
                   IF k = 0 THEN 1 - Len(sep)
                   ELSE IF k = n + 1 THEN Len(s) + 1
                   ELSE CHOOSE i \in P : Cardinality({ j \in P : j < i }) = k - 1 ]
    IN  [ k \in 1..(n + 1) |-> SubSeq(s, pos[k - 1] + Len(sep), pos[k] - 1) ]

\* a flag column as the link carries it: "Sí" with its í percent-encoded
FlagCell(flag) == IF flag THEN "S%C3%AD" ELSE "No"

\* C21: the export of a store that holds records is the header row with its
\* ten columns, then one row of ten cells per record in the order of the
\* store, each row starting with the id of its record and ending with its
\* three flags, "Sí" for true and "No" for false (read off the link, where
\* line ends are %0A).
C21_ExportHeaderThenRowPerRecord ==
    (last.op = "export" /\ Len(savedRecords) > 0) =>
        /\ last.out # None
        /\ LET lines == Split(last.out[1].href, "%0A")
           IN  /\ Len(lines) = Len(savedRecords) + 1
               /\ lines[1] =
                     "data:text/csv;charset=utf-8,ID,Fecha,HC,Paciente,Tel%C3%A9fono,Intervenci%C3%B3n,Regi%C3%B3n,Artroscopia,LCA,Rodilla"
               /\ \A i \in 1..Len(savedRecords) :
                     LET cells == Split(lines[i + 1], ",")
                         r     == savedRecords[i]
                     IN  /\ Len(cells) = 10
                         /\ cells[1] = ToString(r.id)
                         /\ cells[8] = FlagCell(r.intervention[1].isArthroscopic)
                         /\ cells[9] = FlagCell(r.intervention[1].isLCA)
                         /\ cells[10] = FlagCell(r.intervention[1].isKneeRelated)

\* the export of three records, the newest and the oldest with the flags of
\* one dictation and the middle one with those of the other
C21_Witness ==
    /\ last.op = "export"
    /\ last.ok
    /\ Len(savedRecords) = 3
    /\ savedRecords[1].intervention = Some(IvB)
    /\ savedRecords[2].intervention = Some(IvA)
    /\ savedRecords[3].intervention = Some(IvB)
    /\ Len(Split(last.out[1].href, "%0A")) = 4

\* the description cell of the row of the i-th record, as the link carries it
DescriptionCell(i) == Split(Split(last.out[1].href, "%0A")[i + 1], ",")[6]

\* C22: in the export the description of every record stands between two
\* quotation marks, with every quotation mark inside it doubled and nothing
\* else changed (in the link a quotation mark is %22 and a blank %20); the
\* description He said "ok" gives the cell "He said ""ok""".
C22_DescriptionQuoted ==
    (last.op = "export" /\ Len(savedRecords) > 0) =>
        \A i \in 1..Len(savedRecords) :
            LET cell   == DescriptionCell(i)
                desc   == savedRecords[i].intervention[1].description
                inner  == SubSeq(cell, 4, Len(cell) - 3)
                pieces == Split(desc, "\"")
            IN  /\ Len(cell) >= 6
                /\ SubSeq(cell, 1, 3) = "%22"
                /\ SubSeq(cell, Len(cell) - 2, Len(cell)) = "%22"
                /\ Split(inner, "%22%22") =
                      [ k \in 1..Len(pieces) |-> encodeURI(pieces[k]) ]
                /\ desc = "He said \"ok\"" =>
                      cell = "%22He%20said%20%22%22ok%22%22%22"

\* the export of two records, the newer one with the description He said "ok"
C22_Witness ==
    /\ last.op = "export"
    /\ Len(savedRecords) = 2
    /\ savedRecords[1].intervention[1].description = "He said \"ok\""
    /\ savedRecords[2].intervention[1].description = "Meniscectomy"
    /\ DescriptionCell(1) = "%22He%20said%20%22%22ok%22%22%22"
    /\ DescriptionCell(2) = "%22Meniscectomy%22"

\* the pieces of a text between the separators of width w at the places P
PiecesBetween(s, P, w) ==
    LET n == Cardinality(P)
        pos == [ k \in 0..(n + 1) |->
                   IF k = 0 THEN 1 - w
                   ELSE IF k = n + 1 THEN Len(s) + 1
                   ELSE CHOOSE i \in P : Cardinality({ j \in P : j < i }) = k - 1 ]
    IN  [ k \in 1..(n + 1) |-> SubSeq(s, pos[k - 1] + w, pos[k] - 1) ]

\* standard CSV quoting, read on the link (quotation mark %22, line end %0A):
\* a place is inside a quoted field when an odd number of quotation marks
\* stands before it
InsideQuotes(s, i) == Cardinality({ j \in SepAt(s, "%22") : j < i }) % 2 = 1

\* a line end or a comma separates only outside a quoted field
CsvPieces(s, sep) ==
    PiecesBetween(s, { i \in SepAt(s, sep) : ~ InsideQuotes(s, i) }, Len(sep))

\* the value of a field: a quoted field without its two quotation marks and
\* with each doubled quotation mark inside it read as one; a quoted field
\* with a single quotation mark inside it is malformed and is left as it is
CsvValue(field) ==
    IF /\ Len(field) >= 6
       /\ SubSeq(field, 1, 3) = "%22"
       /\ SubSeq(field, Len(field) - 2, Len(field)) = "%22"
    THEN LET inner == SubSeq(field, 4, Len(field) - 3)
             Q == SepAt(inner, "%22")
             \* the quotation marks that stand in one run right before place j
             RunBefore(j) ==
                 Cardinality({ k \in 1..Len(inner) :
                                 \A m \in 1..k : j - 3 * m \in Q })
             Second == { j \in Q : RunBefore(j) % 2 = 1 }
             Malformed == \E j \in Q : j + 3 \notin Q /\ RunBefore(j) % 2 = 0
         IN  IF Malformed THEN field
             ELSE Join(PiecesBetween(inner, Second, 3), "")
    ELSE field

\* the rows of the exported file, each a sequence of field values
ParsedCsv(href) ==
    LET body  == SubSeq(href, Len("data:text/csv;charset=utf-8,") + 1, Len(href))
        lines == CsvPieces(body, "%0A")
    IN  [ i \in 1..Len(lines) |->
            LET fields == CsvPieces(lines[i], ",")
            IN  [ k \in 1..Len(fields) |-> CsvValue(fields[k]) ] ]

\* the ten values of a record in the order of the header
ValuesOf(r) ==
    << ToString(r.id), r.date, r.clinicalHistoryId, r.patientName, r.phoneNumber,
       r.intervention[1].description, r.intervention[1].region,
       IF r.intervention[1].isArthroscopic THEN "Sí" ELSE "No",
       IF r.intervention[1].isLCA THEN "Sí" ELSE "No",
       IF r.intervention[1].isKneeRelated THEN "Sí" ELSE "No" >>

\* C31: whatever characters the text fields of a record hold, commas and
\* quotation marks included, the row of the record in the exported file
\* parses under standard CSV quoting into exactly ten fields, equal to the
\* values of the record in the order of the header.
C31_RowParsesToTenValues ==
    (last.op = "export" /\ last.ok) =>
        LET rows == ParsedCsv(last.out[1].href)
        IN  /\ Len(rows) = Len(savedRecords) + 1
            /\ \A i \in 1..Len(savedRecords) :
                  /\ Len(rows[i + 1]) = 10
                  /\ rows[i + 1] =
                        [ k \in 1..10 |-> encodeURI(ValuesOf(savedRecords[i])[k]) ]

-----------------------------------------------------------------------------
(* Properties of the draft builder (checked under SpecDraft) *)

\* C6: merging a document result leaves the date of the draft as it was,
\* also when the result carries a document date.
C6_ImageMergeKeepsDate ==
    [][ last'.op = "imageOk" => currentRecord'.date = currentRecord.date ]_vars

\* a result with a document date other than the draft's was merged
C6_Witness ==
    /\ last.op = "imageOk"
    /\ last.case = "otherDate"
    /\ last.data.date = "2024-04-30"
    /\ currentRecord.patientName = last.data.patientName
    /\ currentRecord.date # last.data.date

\* C7: after a dictation result is merged, the intervention of the draft is
\* the result in all five fields.
C7_AudioMergeReplaces ==
    [][ last'.op = "audioOk" =>
          /\ last'.iv # None
          /\ currentRecord'.intervention # None
          /\ LET got  == currentRecord'.intervention[1]
                 sent == last'.iv[1]
             IN  /\ got.description = sent.description
                 /\ got.region = sent.region
                 /\ got.isArthroscopic = sent.isArthroscopic
                 /\ got.isLCA = sent.isLCA
                 /\ got.isKneeRelated = sent.isKneeRelated ]_vars

\* a result replaced an intervention that differed from it in all five fields
C7_Witness ==
    /\ last.op = "audioOk"
    /\ last.case = "replacesAll"
    /\ currentRecord.intervention = last.iv

\* C8: a failed extraction clears the processing flag of its channel, sets
\* the error of its channel and leaves the draft as it was.
C8_FailureKeepsDraft ==
    [][ /\ last'.op = "imageFail" =>
            /\ ~ loading'.image
            /\ error' = ImageError
            /\ currentRecord' = currentRecord
        /\ last'.op = "audioFail" =>
            /\ ~ loading'.audio
            /\ error' = AudioError
            /\ currentRecord' = currentRecord ]_vars

\* a document extraction failed on a draft holding a name and an intervention
C8_Witness ==
    /\ last.op = "imageFail"
    /\ error = ImageError
    /\ ~ loading.image
    /\ currentRecord.patientName = "Ana Gomez"
    /\ currentRecord.intervention # None

\* C15: the two merges write disjoint fields: merging a document result
\* leaves the intervention of the draft as it was (dictated, edited or
\* toggled), and merging a dictation result leaves patient name,
\* clinical-history id, phone number and date as they were.
C15_MergesTouchDisjointFields ==
    [][ /\ last'.op = "imageOk" =>
            currentRecord'.intervention = currentRecord.intervention
        /\ last'.op = "audioOk" =>
            /\ currentRecord'.patientName = currentRecord.patientName
            /\ currentRecord'.clinicalHistoryId = currentRecord.clinicalHistoryId
            /\ currentRecord'.phoneNumber = currentRecord.phoneNumber
            /\ currentRecord'.date = currentRecord.date ]_vars

\* a document result was merged into a draft whose intervention the user had
\* changed after dictation, on a date the user had picked
C15_Witness ==
    /\ last.op = "imageOk"
    /\ currentRecord.patientName = "Ana Gomez"
    /\ currentRecord.date = "2024-04-30"
    /\ currentRecord.intervention # None
    /\ currentRecord.intervention # Some(IvA)
    /\ currentRecord.intervention # Some(IvB)
    /\ currentRecord.intervention[1].region = "Rodilla"
    /\ currentRecord.intervention[1].isLCA

\* C16: toggling a flag while the draft holds no intervention does nothing:
\* the application keeps running, the draft is as it was and still holds no
\* intervention, and no error is set.
C16_ToggleWithoutInterventionIsNoOp ==
    [][ (last'.op = "toggle" /\ currentRecord.intervention = None) =>
          /\ currentRecord' = currentRecord
          /\ currentRecord'.intervention = None
          /\ error' = error
          /\ phase' = "ready" ]_vars

\* a flag was toggled on a draft that holds a name and no intervention
C16_Witness ==
    /\ last.op = "toggle"
    /\ ~ last.ok
    /\ last.case = "isLCA"
    /\ currentRecord.patientName = "Ana Gomez"
    /\ currentRecord.intervention = None

\* C17: after a document result is merged, patient name, clinical-history id
\* and phone number of the draft are those of the result, whatever the draft
\* held: also where the result is empty, and also where the user had typed a
\* value while the extraction was running.
C17_ImageMergeOverwrites ==
    [][ last'.op = "imageOk" =>
          /\ currentRecord'.patientName = last'.data.patientName
          /\ currentRecord'.clinicalHistoryId = last'.data.clinicalHistoryId
          /\ currentRecord'.phoneNumber = last'.data.phoneNumber ]_vars

\* a result with no name and no phone number was merged into a draft in which
\* the user had typed a name: the name is gone
C17_Witness ==
    /\ last.op = "imageOk"
    /\ last.case \in { "sameDate+typed", "otherDate+typed" }
    /\ last.data.patientName = ""
    /\ last.data.clinicalHistoryId = "123"
    /\ currentRecord.patientName = ""
    /\ currentRecord.clinicalHistoryId = "123"
    /\ currentRecord.intervention # None

\* C23: the two merges may arrive in either order: on every draft and with
\* every pair of results, the document merge followed by the dictation merge
\* gives the draft that the dictation merge followed by the document merge
\* gives; and each merge is one step on the draft as it is when the result
\* arrives, edits made while the call was running included.
C23_MergesCommute ==
    /\ [] ( \A p \in ImagePayloads, a \in AudioPayloads :
               LET imageFirst == [ [ currentRecord EXCEPT
                                       !.patientName = p.patientName,
                                       !.clinicalHistoryId = p.clinicalHistoryId,
                                       !.phoneNumber = p.phoneNumber ]
                                   EXCEPT !.intervention = Some(a) ]
               IN  /\ MergeAudio(MergeImage(currentRecord, p), a) = imageFirst
                   /\ MergeImage(MergeAudio(currentRecord, a), p) = imageFirst )
    /\ [][ /\ last'.op = "imageOk" =>
                currentRecord' = [ currentRecord EXCEPT
                                     !.patientName = last'.data.patientName,
                                     !.clinicalHistoryId = last'.data.clinicalHistoryId,
                                     !.phoneNumber = last'.data.phoneNumber ]
           /\ last'.op = "audioOk" =>
                currentRecord' = [ currentRecord EXCEPT !.intervention = last'.iv ] ]_vars

\* the dictation result arrived while the document extraction was still
\* running, into a draft with a typed name and a picked date
C23_Witness ==
    /\ last.op = "audioOk"
    /\ imageCalls = 1
    /\ loading.image
    /\ ~ loading.audio
    /\ currentRecord.intervention = Some(IvB)
    /\ currentRecord.patientName = "Ana Gomez"
    /\ currentRecord.clinicalHistoryId = Undefined
    /\ currentRecord.date = "2024-04-30"

\* C24: on a draft that holds an intervention, toggling a flag inverts that
\* flag and leaves the other two flags, the description, the region and the
\* patient fields and date as they were; toggling the same flag once more
\* gives back the draft.
C24_ToggleInvertsOneFlag ==
    /\ [][ (last'.op = "toggle" /\ currentRecord.intervention # None) =>
              LET f   == last'.case
                  old == currentRecord.intervention[1]
                  new == currentRecord'.intervention[1]
              IN  /\ currentRecord'.intervention # None
                  /\ new[f] = ~ old[f]
                  /\ \A g \in Flags \ { f } : new[g] = old[g]
                  /\ new.description = old.description
                  /\ new.region = old.region
                  /\ currentRecord'.patientName = currentRecord.patientName
                  /\ currentRecord'.clinicalHistoryId = currentRecord.clinicalHistoryId
                  /\ currentRecord'.phoneNumber = currentRecord.phoneNumber
                  /\ currentRecord'.date = currentRecord.date ]_vars
    /\ [] ( currentRecord.intervention # None =>
               \A f \in Flags :
                   ToggleDraft(ToggleDraft(currentRecord, f), f) = currentRecord )

\* a flag was toggled and the draft holds the dictated intervention again:
\* the toggle before it was undone
C24_Witness ==
    /\ last.op = "toggle"
    /\ last.ok
    /\ last.case = "isKneeRelated"
    /\ currentRecord.intervention = Some(IvB)
    /\ currentRecord.patientName = "Ana Gomez"
    /\ audioCalls = 0
    /\ ~ loading.audio

\* C30: given that the extraction service answers or fails in the end, a
\* call that was started is completed by its handler and the flag of its
\* channel gets to false; the step that completes a call, by a result or by
\* a failure, takes the call off the channel and leaves the flag false; and
\* the flag of a channel is never set while no call is outstanding on it.
C30_CallsCompleteAndFlagClears ==
    /\ (imageCalls > 0) ~> ~ loading.image
    /\ (audioCalls > 0) ~> ~ loading.audio
    /\ [][ /\ last'.op \in { "imageOk", "imageFail" } =>
                /\ imageCalls' = imageCalls - 1
                /\ ~ loading'.image
           /\ last'.op \in { "audioOk", "audioFail" } =>
                /\ audioCalls' = audioCalls - 1
                /\ ~ loading'.audio ]_vars
    /\ [](loading.image => imageCalls > 0)
    /\ [](loading.audio => audioCalls > 0)

\* a dictation call has failed while a document call is still outstanding
C30_Witness ==
    /\ last.op = "audioFail"
    /\ audioCalls = 0
    /\ ~ loading.audio
    /\ imageCalls > 0
    /\ loading.image

-----------------------------------------------------------------------------
(* Properties of the capture widgets (checked under SpecUI) *)

\* C5: at most one document extraction and at most one dictation extraction
\* is outstanding.
C5_AtMostOneCallPerChannel == imageCalls <= 1 /\ audioCalls <= 1

=============================================================================
